---- MODULE Spec2Model ----
(***************************************************************************)
(* Window-visibility state machine of the Aura desktop shell               *)
(* (src-tauri/src/main.rs): the tray handler, the two global shortcut      *)
(* closures, the UI commands and the window-event handler, run by the      *)
(* Tauri event loop on the main thread.                                    *)
(*                                                                         *)
(* Every callback is a straight-line program of window operations.  An     *)
(* invocation executes one operation per step, so that the position of a   *)
(* callback between its visibility read and its show/hide is a state of    *)
(* the model.  The operating system posts events at any time (Fire); the   *)
(* event loop takes the next one when the main thread is free (Dispatch).  *)
(***************************************************************************)
EXTENDS Naturals, Sequences, FiniteSets

VARIABLES
    phase,        \* position of main()'s setup closure
    primaryReg,   \* outcome of registering CmdOrCtrl+'
    altReg,       \* outcome of registering CmdOrCtrl+Shift+A
    interceptor,  \* on_window_event handler installed on "main"
    logged,       \* number of eprintln! lines written by setup
    winAlive,     \* the window labelled "main" exists
    visible,      \* OS-owned visibility of the main window
    focused,      \* OS-owned input focus of the main window
    emitted,      \* number of "show-settings" events emitted to the UI
    proc,         \* "running", "exited" or "panicked"
    exitCode,     \* set holding the exit status once the process has ended, {} before
    endedBy,      \* the event whose handling ended the process
    queue,        \* events posted by the OS / the webview, not yet handled
    fired,        \* number of events posted so far
    active,       \* callback invocations in progress
    last,         \* the invocation that returned in the step leading here
    hist,         \* what the next callback follows: the kind of the callback
                  \* that returned last, with nothing happening to the window since
    replies,      \* the records get_system_info has returned to the UI
    selected      \* number of times the tray item `settings` was selected

vars == <<phase, primaryReg, altReg, interceptor, logged, winAlive, visible,
          focused, emitted, proc, exitCode, endedBy, queue, fired, active, last,
          hist, replies, selected>>

-----------------------------------------------------------------------------
(* Bounds of the model. *)

\* total number of events the environment posts in one run
MaxEvents == 2

\* number of events that may be in flight at once: posted and not yet handled
\* to completion
MaxPending == 2

-----------------------------------------------------------------------------
(* Events. *)

Ev(src, arg) == [src |-> src, arg |-> arg]

NoEvent == Ev("none", "none")

\* ids of the items create_system_tray puts in the menu
create_system_tray == <<"show", "hide", "settings", "quit">>

\* ids a menu selection may carry: the four items and ids the match does not name
MenuIds == {create_system_tray[k] : k \in 1..Len(create_system_tray)} \cup {"about"}

\* SystemTrayEvent variants other than MenuItemClick
TrayClicks == {"LeftClick", "RightClick"}

PrimaryKeys == "CmdOrCtrl+'"

AltKeys == "CmdOrCtrl+Shift+A"

\* commands listed in generate_handler!
Commands == {"toggle_window", "show_window", "hide_window", "get_system_info",
             "file_exists", "get_app_data_dir", "get_documents_dir"}

\* events some party outside the process posts on its own initiative
PostedEvents ==
    {Ev("tray", c) : c \in TrayClicks}
      \cup {Ev("menu", id) : id \in MenuIds}
      \cup {Ev("shortcut", k) : k \in {PrimaryKeys, AltKeys}}
      \cup {Ev("invoke", c) : c \in Commands}
      \cup {Ev("window", "CloseRequested")}

FocusLostEvent == Ev("window", "Focused(false)")

-----------------------------------------------------------------------------
(* Callback bodies: sequences of window operations.  `when` is the branch  *)
(* of `if window.is_visible().unwrap()` the operation sits in.             *)

I(op) == [op |-> op, when |-> "always"]

IfVisible(op) == [op |-> op, when |-> "visible"]

IfHidden(op) == [op |-> op, when |-> "hidden"]

\* toggle_window with the two branches of the if exchanged
toggle_window_swapped ==
    << I("is_visible"), IfVisible("show"), IfVisible("set_focus"), IfHidden("hide") >>

\* #[tauri::command] fn toggle_window(window: Window)
toggle_window ==
    << I("is_visible"), IfVisible("hide"), IfHidden("show"), IfHidden("set_focus") >>

\* show_window asking for focus before the window is shown
show_window_focusfirst == << I("set_focus"), I("show") >>

\* show_window without the set_focus call
show_window_nofocus == << I("show") >>

\* #[tauri::command] fn show_window(window: Window)
show_window == << I("show"), I("set_focus") >>

\* hide_window written as a toggle
hide_window_toggle ==
    << I("is_visible"), IfVisible("hide"), IfHidden("show"), IfHidden("set_focus") >>

\* #[tauri::command] fn hide_window(window: Window)
hide_window == << I("hide") >>

\* the record also reports a value that changes while the program runs
system_info_with_state ==
    [platform |-> "std::env::consts::OS",
     arch |-> "std::env::consts::ARCH",
     version |-> "CARGO_PKG_VERSION",
     name |-> IF visible THEN "CARGO_PKG_NAME" ELSE "CARGO_PKG_NAME (hidden)"]

\* serde_json::json!({..}): four values fixed when the program is built
system_info ==
    [platform |-> "std::env::consts::OS",
     arch |-> "std::env::consts::ARCH",
     version |-> "CARGO_PKG_VERSION",
     name |-> "CARGO_PKG_NAME"]

\* #[tauri::command] fn get_system_info() -> serde_json::Value
get_system_info == << I("return_info") >>

file_exists == << I("return") >>

get_app_data_dir == << I("return") >>

get_documents_dir == << I("return") >>

\* SystemTrayEvent::LeftClick arm
tray_left_click ==
    << I("get_window"), I("is_visible"), IfVisible("hide"), IfHidden("show"),
       IfHidden("set_focus") >>

\* the "settings" arm without window.emit
tray_menu_item_noemit(id) ==
    CASE id = "quit" -> << I("exit") >>
      [] id = "show" -> << I("get_window"), I("show"), I("set_focus") >>
      [] id = "hide" -> << I("get_window"), I("hide") >>
      [] id = "settings" -> << I("get_window"), I("show"), I("set_focus") >>
      [] OTHER -> << >>

\* the "show" arm emitting show-settings as well
tray_menu_item_showemits(id) ==
    CASE id = "quit" -> << I("exit") >>
      [] id = "show" -> << I("get_window"), I("show"), I("set_focus"), I("emit") >>
      [] id = "hide" -> << I("get_window"), I("hide") >>
      [] id = "settings" ->
            << I("get_window"), I("show"), I("set_focus"), I("emit") >>
      [] OTHER -> << >>

\* the "show" and "hide" arms exchanged
tray_menu_item_swapped(id) ==
    CASE id = "quit" -> << I("exit") >>
      [] id = "show" -> << I("get_window"), I("hide") >>
      [] id = "hide" -> << I("get_window"), I("show"), I("set_focus") >>
      [] id = "settings" ->
            << I("get_window"), I("show"), I("set_focus"), I("emit") >>
      [] OTHER -> << >>

\* SystemTrayEvent::MenuItemClick arm: match id.as_str()
tray_menu_item(id) ==
    CASE id = "quit" -> << I("exit") >>
      [] id = "show" -> << I("get_window"), I("show"), I("set_focus") >>
      [] id = "hide" -> << I("get_window"), I("hide") >>
      [] id = "settings" ->
            << I("get_window"), I("show"), I("set_focus"), I("emit") >>
      [] OTHER -> << >>

\* every click on the tray icon, not only LeftClick, takes the toggle arm
handle_system_tray_event_anyclick(ev) ==
    IF ev.src = "tray" THEN tray_left_click ELSE tray_menu_item(ev.arg)

handle_system_tray_event(ev) ==
    IF ev.src = "tray"
    THEN IF ev.arg = "LeftClick" THEN tray_left_click ELSE << >>
    ELSE tray_menu_item(ev.arg)

\* the primary closure without the set_focus call
primary_shortcut_nofocus ==
    << I("get_window"), I("is_visible"), IfVisible("hide"), IfHidden("show") >>

\* closure registered for CmdOrCtrl+'
primary_shortcut ==
    << I("get_window"), I("is_visible"), IfVisible("hide"), IfHidden("show"),
       IfHidden("set_focus") >>

\* the alternative closure acting as if the window were still visible,
\* without asking the window
alternative_shortcut_stale == << I("get_window"), I("hide") >>

\* closure registered for CmdOrCtrl+Shift+A
alternative_shortcut ==
    << I("get_window"), I("is_visible"), IfVisible("hide"), IfHidden("show"),
       IfHidden("set_focus") >>

\* the CloseRequested arm without api.prevent_close()
on_window_event_noprevent(arg) ==
    CASE arg = "CloseRequested" -> << I("hide") >>
      [] arg = "Focused(false)" -> << >>
      [] OTHER -> << >>

\* the CloseRequested arm without window.hide()
on_window_event_nohide(arg) ==
    CASE arg = "CloseRequested" -> << I("prevent_close") >>
      [] arg = "Focused(false)" -> << >>
      [] OTHER -> << >>

\* the Focused(false) arm with its commented-out hide switched on
on_window_event_hideonblur(arg) ==
    CASE arg = "CloseRequested" -> << I("prevent_close"), I("hide") >>
      [] arg = "Focused(false)" -> << I("hide") >>
      [] OTHER -> << >>

\* closure given to window.on_window_event
on_window_event(arg) ==
    CASE arg = "CloseRequested" -> << I("prevent_close"), I("hide") >>
      [] arg = "Focused(false)" -> << >>
      [] OTHER -> << >>

invoke_handler(cmd) ==
    CASE cmd = "toggle_window" -> toggle_window
      [] cmd = "show_window" -> show_window
      [] cmd = "hide_window" -> hide_window
      [] cmd = "get_system_info" -> get_system_info
      [] cmd = "file_exists" -> file_exists
      [] cmd = "get_app_data_dir" -> get_app_data_dir
      [] cmd = "get_documents_dir" -> get_documents_dir

\* the callback the builder in main() attaches to each event source
Code(ev) ==
    CASE ev.src \in {"tray", "menu"} -> handle_system_tray_event(ev)
      [] ev.src = "invoke" -> invoke_handler(ev.arg)
      [] ev.src = "shortcut" ->
            IF ev.arg = PrimaryKeys THEN primary_shortcut ELSE alternative_shortcut
      [] ev.src = "window" -> on_window_event(ev.arg)

-----------------------------------------------------------------------------
(* Execution of callbacks. *)

\* an operation is in the branch taken after the visibility read `obs`
Match(ins, obs) == ins.when = "always" \/ ins.when = obs

\* index of the next operation after pc that lies on the branch taken
RECURSIVE NextPc(_, _, _)
NextPc(code, pc, obs) ==
    IF pc + 1 > Len(code) THEN Len(code) + 1
    ELSE IF Match(code[pc + 1], obs) THEN pc + 1
    ELSE NextPc(code, pc + 1, obs)

\* operations that go through the handle of the window labelled "main"
WindowOps == {"get_window", "is_visible", "show", "hide", "set_focus", "emit"}

\* Option/Result of a window operation is None/Err when the window is gone
Fails(op) == op \in WindowOps /\ ~winAlive

\* what the triggers are for, in the vocabulary of the specification
Class(ev) ==
    CASE \/ ev.src = "shortcut"
         \/ ev.src = "tray" /\ ev.arg = "LeftClick"
         \/ ev.src = "invoke" /\ ev.arg = "toggle_window" -> "toggle"
      [] \/ ev.src = "invoke" /\ ev.arg = "show_window"
         \/ ev.src = "menu" /\ ev.arg = "show" -> "show"
      [] \/ ev.src = "invoke" /\ ev.arg = "hide_window"
         \/ ev.src = "menu" /\ ev.arg = "hide"
         \/ ev.src = "window" /\ ev.arg = "CloseRequested" -> "hide"
      [] ev.src = "none" -> "none"
      [] OTHER -> "other"

\* the events within a class that the properties tell apart
Tag(ev) ==
    CASE ev = Ev("window", "CloseRequested") -> "close"
      [] ev = Ev("invoke", "get_system_info") -> "get_system_info"
      [] OTHER -> "-"

Snapshot == [vis |-> visible, foc |-> focused, emit |-> emitted]

NoLast ==
    [ev |-> NoEvent, pre |-> [vis |-> FALSE, foc |-> FALSE, emit |-> 0],
     prev |-> "none", run |-> 0, runStart |-> FALSE, prevented |-> FALSE,
     prevTag |-> "-"]

NoHist == [prev |-> "none", tag |-> "-", run |-> 0, runStart |-> FALSE]

\* callbacks handed to other threads: an event is taken while one is running
MainThreadFreeAsync == TRUE

\* the event loop runs one callback at a time, to completion, on the main thread
MainThreadFree == active = {}

Idle == active = {}

Running == proc = "running"

InFlight == Len(queue) + Cardinality(active)

Init ==
    /\ phase = "register_primary"
    /\ primaryReg = "none"
    /\ altReg = "none"
    /\ interceptor = FALSE
    /\ logged = 0
    /\ winAlive = TRUE
    /\ visible \in BOOLEAN
    /\ focused \in {f \in BOOLEAN : f => visible}
    /\ emitted = 0
    /\ proc = "running"
    /\ exitCode = {}
    /\ endedBy = NoEvent
    /\ queue = << >>
    /\ fired = 0
    /\ active = {}
    /\ last = NoLast
    /\ hist = NoHist
    /\ replies = {}
    /\ selected = 0

-----------------------------------------------------------------------------
(* main(): the setup closure. *)

\* shortcut_manager.register(..).unwrap()
register_unwrap(ok) ==
    [reg |-> IF ok THEN "ok" ELSE "failed",
     log |-> 0,
     proc |-> IF ok THEN "running" ELSE "panicked"]

\* shortcut_manager.register(..).unwrap_or_else(|err| eprintln!(..))
register(ok) ==
    [reg |-> IF ok THEN "ok" ELSE "failed",
     log |-> IF ok THEN 0 ELSE 1,
     proc |-> "running"]

RegisterPrimary ==
    /\ Running /\ phase = "register_primary"
    /\ \E ok \in BOOLEAN :
          /\ primaryReg' = register(ok).reg
          /\ logged' = logged + register(ok).log
          /\ proc' = register(ok).proc
          /\ exitCode' = IF register(ok).proc = "panicked" THEN {101} ELSE exitCode
    /\ phase' = "register_alternative"
    /\ UNCHANGED <<altReg, interceptor, winAlive, visible, focused, emitted,
                   endedBy, queue, fired, active, last, hist, replies, selected>>

RegisterAlternative ==
    /\ Running /\ phase = "register_alternative"
    /\ \E ok \in BOOLEAN :
          /\ altReg' = register(ok).reg
          /\ logged' = logged + register(ok).log
          /\ proc' = register(ok).proc
          /\ exitCode' = IF register(ok).proc = "panicked" THEN {101} ELSE exitCode
    /\ phase' = "window_events"
    /\ UNCHANGED <<primaryReg, interceptor, winAlive, visible, focused, emitted,
                   endedBy, queue, fired, active, last, hist, replies, selected>>

\* app.get_window("main").unwrap(); window.on_window_event(..); Ok(())
SetupWindowEvents ==
    /\ Running /\ phase = "window_events"
    /\ IF Fails("get_window")
       THEN /\ proc' = "panicked" /\ exitCode' = {101}
            /\ UNCHANGED <<phase, interceptor>>
       ELSE /\ interceptor' = TRUE /\ phase' = "run"
            /\ UNCHANGED <<proc, exitCode>>
    /\ UNCHANGED <<primaryReg, altReg, logged, winAlive, visible, focused, emitted,
                   endedBy, queue, fired, active, last, hist, replies, selected>>

-----------------------------------------------------------------------------
(* The event loop started by .run(..). *)

\* the OS reports a key combination only while it is registered
CanPost(ev) ==
    /\ ev.src = "shortcut" /\ ev.arg = PrimaryKeys => primaryReg = "ok"
    /\ ev.src = "shortcut" /\ ev.arg = AltKeys => altReg = "ok"
    /\ ev.src = "window" => winAlive

Fire ==
    /\ Running /\ phase = "run"
    /\ fired < MaxEvents /\ InFlight < MaxPending
    /\ \E ev \in PostedEvents :
          /\ CanPost(ev)
          /\ queue' = Append(queue, ev)
          /\ selected' = IF ev = Ev("menu", "settings") THEN selected + 1
                         ELSE selected
    /\ fired' = fired + 1
    /\ last' = NoLast
    /\ UNCHANGED <<phase, primaryReg, altReg, interceptor, logged, winAlive, visible,
                   focused, emitted, proc, exitCode, endedBy, active, hist, replies>>

NewInvocation(ev) ==
    [id |-> fired - Len(queue) + 1,
     ev |-> ev,
     pc |-> NextPc(Code(ev), 0, "unread"),
     obs |-> "unread",
     prevented |-> FALSE,
     pre |-> Snapshot,
     prev |-> hist.prev,
     prevTag |-> hist.tag,
     run |-> IF Class(ev) = "toggle" /\ hist.prev = "toggle" THEN hist.run ELSE 0,
     runStart |-> IF Class(ev) # "toggle" THEN FALSE
                  ELSE IF hist.prev = "toggle" THEN hist.runStart ELSE visible]

Dispatch ==
    /\ Running /\ phase = "run"
    /\ queue # << >>
    /\ MainThreadFree
    /\ active' = active \cup {NewInvocation(Head(queue))}
    /\ queue' = Tail(queue)
    /\ last' = NoLast
    /\ hist' = NoHist
    /\ UNCHANGED <<phase, primaryReg, altReg, interceptor, logged, winAlive, visible,
                   focused, emitted, proc, exitCode, endedBy, fired, replies, selected>>

\* input focus after a window operation: set_focus grants it to a visible
\* window, a hidden window has none, and show activates the window on some
\* platforms and not on others
FocusAfter(op) ==
    CASE op = "set_focus" -> {visible}
      [] op = "hide" -> {FALSE}
      [] op = "show" -> {focused, TRUE}
      [] OTHER -> {focused}

\* one operation of invocation i
Step(i) ==
    LET code == Code(i.ev)
        op == code[i.pc].op
        obs == IF op = "is_visible" THEN (IF visible THEN "visible" ELSE "hidden")
               ELSE i.obs
    IN  /\ Running
        /\ i.pc <= Len(code)
        /\ IF Fails(op)
           THEN \* .unwrap() on None / Err
                /\ proc' = "panicked" /\ exitCode' = {101} /\ endedBy' = i.ev
                /\ UNCHANGED <<visible, focused, emitted, active, replies>>
           ELSE /\ visible' = CASE op = "show" -> TRUE
                                [] op = "hide" -> FALSE
                                [] OTHER -> visible
                /\ focused' \in FocusAfter(op)
                /\ emitted' = IF op = "emit" THEN emitted + 1 ELSE emitted
                /\ replies' = IF op = "return_info" THEN replies \cup {system_info}
                              ELSE replies
                /\ proc' = IF op = "exit" THEN "exited" ELSE proc
                /\ exitCode' = IF op = "exit" THEN {0} ELSE exitCode
                /\ endedBy' = IF op = "exit" THEN i.ev ELSE endedBy
                /\ active' = (active \ {i}) \cup
                      {[i EXCEPT !.pc = NextPc(code, i.pc, obs),
                                 !.obs = obs,
                                 !.prevented = (i.prevented \/ op = "prevent_close")]}
        /\ UNCHANGED <<phase, primaryReg, altReg, interceptor, logged, winAlive,
                       queue, fired, last, hist, selected>>

\* invocation i returns to the event loop
Finish(i) ==
    /\ Running
    /\ i.pc > Len(Code(i.ev))
    /\ active' = active \ {i}
    /\ last' = [ev |-> i.ev, pre |-> i.pre, prev |-> i.prev,
                run |-> IF Class(i.ev) = "toggle" THEN i.run + 1 ELSE 0,
                runStart |-> i.runStart, prevented |-> i.prevented,
                prevTag |-> i.prevTag]
    /\ hist' = [prev |-> Class(i.ev), tag |-> Tag(i.ev),
                run |-> IF Class(i.ev) = "toggle" THEN i.run + 1 ELSE 0,
                runStart |-> i.runStart]
    /\ IF i.ev = Ev("window", "CloseRequested") /\ ~i.prevented
       THEN \* default close: the only window is destroyed and the runtime exits
            /\ winAlive' = FALSE /\ visible' = FALSE /\ focused' = FALSE
            /\ proc' = "exited" /\ exitCode' = {0} /\ endedBy' = i.ev
       ELSE UNCHANGED <<winAlive, visible, focused, proc, exitCode, endedBy>>
    /\ UNCHANGED <<phase, primaryReg, altReg, interceptor, logged, emitted,
                   queue, fired, replies, selected>>

-----------------------------------------------------------------------------
(* The environment: the user and the window system. *)

\* an external actor shows or hides the window between two callbacks
ExternalVisibilityChange ==
    /\ Running /\ phase = "run" /\ Idle /\ winAlive
    /\ visible' = ~visible
    /\ focused' = (visible' /\ focused)
    /\ last' = NoLast
    /\ hist' = [NoHist EXCEPT !.tag = "external"]
    /\ UNCHANGED <<phase, primaryReg, altReg, interceptor, logged, winAlive, emitted,
                   proc, exitCode, endedBy, queue, fired, active, replies, selected>>

\* the window loses input focus; the window system reports Focused(false)
FocusLost ==
    /\ Running /\ phase = "run" /\ Idle /\ winAlive
    /\ focused
    /\ fired < MaxEvents /\ InFlight < MaxPending
    /\ focused' = FALSE
    /\ queue' = Append(queue, FocusLostEvent)
    /\ fired' = fired + 1
    /\ last' = NoLast
    /\ hist' = NoHist
    /\ UNCHANGED <<phase, primaryReg, altReg, interceptor, logged, winAlive, visible,
                   emitted, proc, exitCode, endedBy, active, replies, selected>>

\* the window is destroyed behind the program's back
WindowLost ==
    /\ Running /\ winAlive
    /\ winAlive' = FALSE
    /\ visible' = FALSE
    /\ focused' = FALSE
    /\ last' = NoLast
    /\ hist' = NoHist
    /\ UNCHANGED <<phase, primaryReg, altReg, interceptor, logged, emitted,
                   proc, exitCode, endedBy, queue, fired, active, replies, selected>>

Next ==
    \/ RegisterPrimary
    \/ RegisterAlternative
    \/ SetupWindowEvents
    \/ Fire
    \/ Dispatch
    \/ \E i \in active : Step(i)
    \/ \E i \in active : Finish(i)
    \/ ExternalVisibilityChange
    \/ FocusLost

\* normal operation: the main window exists for the lifetime of the process
Spec == Init /\ [][Next]_vars

NextFault == Next \/ WindowLost

\* operation in which the window handle may become unavailable
SpecFault == Init /\ [][NextFault]_vars

-----------------------------------------------------------------------------
(* A callback as a function of the window state it starts in: the states   *)
(* it can return in when nothing else touches the window meanwhile.        *)

\* window state with the main window in existence and the close not prevented
WinState(snap) ==
    [vis |-> snap.vis, foc |-> snap.foc, emit |-> snap.emit,
     alive |-> TRUE, prevented |-> FALSE]

\* the states one window operation can leave
OpOutcomes(op, s) ==
    CASE op = "show" -> {[s EXCEPT !.vis = TRUE, !.foc = f] : f \in {s.foc, TRUE}}
      [] op = "hide" -> {[s EXCEPT !.vis = FALSE, !.foc = FALSE]}
      [] op = "set_focus" -> {[s EXCEPT !.foc = s.vis]}
      [] op = "emit" -> {[s EXCEPT !.emit = s.emit + 1]}
      [] op = "prevent_close" -> {[s EXCEPT !.prevented = TRUE]}
      [] OTHER -> {s}

RECURSIVE RunFrom(_, _, _, _)
RunFrom(code, pc, obs, s) ==
    IF pc > Len(code) THEN {s}
    ELSE LET op == code[pc].op
             seen == IF op = "is_visible"
                     THEN (IF s.vis THEN "visible" ELSE "hidden")
                     ELSE obs
         IN  UNION {RunFrom(code, NextPc(code, pc, seen), seen, t) :
                        t \in OpOutcomes(op, s)}

\* a close request that was not prevented destroys the window
AfterReturn(ev, s) ==
    IF ev = Ev("window", "CloseRequested") /\ ~s.prevented
    THEN [vis |-> FALSE, foc |-> FALSE, emit |-> s.emit, alive |-> FALSE]
    ELSE [vis |-> s.vis, foc |-> s.foc, emit |-> s.emit, alive |-> s.alive]

Outcomes(ev, snap) ==
    {AfterReturn(ev, t) :
        t \in RunFrom(Code(ev), NextPc(Code(ev), 0, "unread"), "unread", WinState(snap))}

\* the window state now, in the shape Outcomes returns
Now == [vis |-> visible, foc |-> focused, emit |-> emitted, alive |-> winAlive]

-----------------------------------------------------------------------------
(* Properties. *)

Quit == Ev("menu", "quit")

Settings == Ev("menu", "settings")

CloseRequested == Ev("window", "CloseRequested")

\* invocation i of a toggle has read the visibility and not yet acted on it
BetweenReadAndAct(i) ==
    /\ Class(i.ev) = "toggle"
    /\ i.obs # "unread"
    /\ i.pc <= Len(Code(i.ev))
    /\ Code(i.ev)[i.pc].op \in {"show", "hide"}

\* C1: the read-then-act sequence of toggle is atomic with respect to other
\* toggle triggers: no two toggle invocations are between their visibility
\* read and their show/hide at once, so no two act on the same observed value,
\* and a toggle that has read acts on the visibility the window still has.
C1_ToggleAtomic ==
    /\ \A i, j \in active :
          BetweenReadAndAct(i) /\ BetweenReadAndAct(j) => i = j
    /\ \A i \in active :
          BetweenReadAndAct(i) => (i.obs = "visible") = visible

\* two triggers from different sources in flight at once: one has read the
\* visibility and not yet acted while the other waits to be handled
C1_Witness ==
    \E i \in active :
        /\ BetweenReadAndAct(i)
        /\ queue # << >>
        /\ Class(Head(queue)) = "toggle"
        /\ Head(queue) # i.ev

\* C2: after n consecutive toggle triggers (any sources) with no external
\* visibility change in between, visibility is the visibility at the start of
\* the sequence XOR (n is odd).
C2_ToggleParity ==
    Class(last.ev) = "toggle" =>
        visible = (last.runStart # (last.run % 2 = 1))

\* two back-to-back toggles, the second from the alternative hotkey
C2_Witness ==
    /\ Class(last.ev) = "toggle"
    /\ last.run = 2
    /\ last.ev = Ev("shortcut", AltKeys)
    /\ visible = last.runStart

\* C3: a close request never destroys the main window: the default close is
\* suppressed, the window ends hidden and the process keeps running.
C3_CloseHides ==
    last.ev = CloseRequested =>
        /\ last.prevented
        /\ winAlive
        /\ ~visible
        /\ proc = "running"

C3_Witness ==
    /\ last.ev = CloseRequested
    /\ last.pre.vis
    /\ ~visible

\* C4: a window operation that fails because the window handle is unavailable
\* is local to the invocation that made it: it never ends the process.
C4_FailureIsLocal == proc # "panicked"

\* C5: selecting the tray item `settings` ends with the window visible and
\* exactly one show-settings notification emitted, whatever the visibility was.
C5_SettingsShowsAndEmitsOnce ==
    last.ev = Settings =>
        /\ visible
        /\ emitted = last.pre.emit + 1

C5_Witness ==
    /\ last.ev = Settings
    /\ ~last.pre.vis
    /\ emitted = 2

\* C6: the process ends only through the tray item `quit`: it is running until
\* quit is handled, the quit arm exits as its first operation, and the exit
\* status is 0.
C6_OnlyQuitTerminates ==
    /\ proc # "running" => proc = "exited" /\ exitCode = {0} /\ endedBy = Quit
    /\ proc = "running" => exitCode = {} /\ endedBy = NoEvent
    /\ \A i \in active : i.ev = Quit => (i.pc = 1 \/ proc = "exited")
    /\ \A i \in active : i.ev = Quit /\ i.pc = 1 => Code(i.ev)[1].op = "exit"

C6_Witness ==
    /\ proc = "exited"
    /\ exitCode = {0}
    /\ queue # << >>
    /\ fired = 2

\* C7: show is idempotent: a second consecutive show (command or tray item)
\* leaves the window as the first left it, visible and focused.
C7_ShowIdempotent ==
    Class(last.ev) = "show" /\ last.prev = "show" =>
        /\ visible /\ focused
        /\ last.pre.vis /\ last.pre.foc
        /\ emitted = last.pre.emit

C7_Witness ==
    /\ last.ev = Ev("invoke", "show_window")
    /\ last.prev = "show"
    /\ visible /\ focused

\* C8: hide is idempotent: a second consecutive hide (command, tray item or
\* close request) leaves the window as the first left it, hidden.
C8_HideIdempotent ==
    Class(last.ev) = "hide" /\ last.prev = "hide" =>
        /\ ~visible /\ ~last.pre.vis
        /\ focused = last.pre.foc
        /\ emitted = last.pre.emit
        /\ winAlive /\ proc = "running"

C8_Witness ==
    /\ last.ev = Ev("invoke", "hide_window")
    /\ last.prev = "hide"
    /\ ~visible

\* C9: a failed shortcut registration is not fatal: whatever the two outcomes,
\* setup goes on to the next step, both registrations are attempted, the
\* window-event handler is installed, each failure is logged, and a binding
\* that registered toggles the window when pressed.
C9_RegistrationNonFatal ==
    /\ phase # "run" =>
          /\ proc = "running"
          /\ ENABLED (RegisterPrimary \/ RegisterAlternative \/ SetupWindowEvents)
    /\ phase \in {"window_events", "run"} =>
          /\ primaryReg \in {"ok", "failed"}
          /\ altReg \in {"ok", "failed"}
          /\ logged = (IF primaryReg = "failed" THEN 1 ELSE 0)
                        + (IF altReg = "failed" THEN 1 ELSE 0)
    /\ phase = "run" => interceptor
    /\ \A q \in 1..Len(queue) :
          /\ queue[q] = Ev("shortcut", PrimaryKeys) => primaryReg = "ok"
          /\ queue[q] = Ev("shortcut", AltKeys) => altReg = "ok"
    /\ last.ev.src = "shortcut" => visible = ~last.pre.vis

C9_Witness ==
    /\ phase = "run"
    /\ primaryReg = "failed"
    /\ altReg = "ok"
    /\ interceptor
    /\ last.ev = Ev("shortcut", AltKeys)

\* C10: a menu selection whose id is none of show, hide, settings, quit, and a
\* tray event that is neither a left click nor a menu selection, change
\* nothing: visibility, focus and notifications are as before and the process
\* keeps running.
C10_UnknownIsNoOp ==
    (\/ last.ev.src = "menu" /\ last.ev.arg \notin {"show", "hide", "settings", "quit"}
     \/ last.ev.src = "tray" /\ last.ev.arg # "LeftClick")
    => /\ visible = last.pre.vis
       /\ focused = last.pre.foc
       /\ emitted = last.pre.emit
       /\ winAlive
       /\ proc = "running"

C10_Witness ==
    /\ last.ev = Ev("menu", "about")
    /\ last.pre.vis
    /\ last.pre.foc

\* C11: a focus-lost event on the main window produces no transition:
\* visibility (and with it focus, notifications and the process) is the same
\* after the handler has run as before it.
C11_FocusLostIsNoOp ==
    last.ev = FocusLostEvent =>
        /\ visible = last.pre.vis
        /\ focused = last.pre.foc
        /\ emitted = last.pre.emit
        /\ winAlive
        /\ proc = "running"

\* a visible window lost focus and is still visible after the handler
C11_Witness ==
    /\ last.ev = FocusLostEvent
    /\ last.pre.vis
    /\ visible

\* the next operation of invocation i
NextOp(i) ==
    IF i.pc <= Len(Code(i.ev)) THEN Code(i.ev)[i.pc].op ELSE "return"

\* C12: in every path that shows the window, input focus is requested only
\* once the window is visible: no invocation is about to call set_focus while
\* the window is hidden, and none does so on the branch that read "visible"
\* (the hide branch).
C12_FocusOnlyWhenVisible ==
    \A i \in active :
        NextOp(i) = "set_focus" =>
            /\ visible
            /\ i.obs # "visible"
            /\ i.pc > 1
            /\ Code(i.ev)[i.pc - 1].op = "show"

\* the settings item was selected while the window was hidden; the window has
\* been shown and focus is about to be requested
C12_Witness ==
    \E i \in active :
        /\ i.ev = Settings
        /\ ~i.pre.vis
        /\ NextOp(i) = "set_focus"

\* C13: the tray items `show` and `hide` act unconditionally: after `show`
\* the window is visible and focused, after `hide` it is hidden, whatever the
\* visibility was before.
C13_TrayShowHideUnconditional ==
    /\ last.ev = Ev("menu", "show") => visible /\ focused
    /\ last.ev = Ev("menu", "hide") => ~visible /\ ~focused

C13_Witness ==
    /\ last.ev = Ev("menu", "show")
    /\ last.pre.vis
    /\ ~last.pre.foc
    /\ focused

InfoCommands == {"get_system_info", "file_exists", "get_app_data_dir", "get_documents_dir"}

\* C14: the information queries have no side effect on the core state:
\* visibility, focus, notifications and the process are as before the call;
\* and get_system_info has returned one and the same record on all its calls.
C14_InfoQueriesPure ==
    /\ last.ev.src = "invoke" /\ last.ev.arg \in InfoCommands =>
          /\ visible = last.pre.vis
          /\ focused = last.pre.foc
          /\ emitted = last.pre.emit
          /\ winAlive
          /\ proc = "running"
    /\ Cardinality(replies) <= 1

\* get_system_info was called twice in a row
C14_Witness ==
    /\ last.ev = Ev("invoke", "get_system_info")
    /\ last.prevTag = "get_system_info"
    /\ Cardinality(replies) = 1

\* C15: a toggle that follows an external change of visibility decides on the
\* visibility the window has when the toggle runs: it reads that value, hides
\* a window that is then visible, shows and focuses one that is then hidden.
C15_ToggleReadsCurrent ==
    /\ \A i \in active :
          Class(i.ev) = "toggle" /\ i.prevTag = "external" /\ i.obs # "unread" =>
              (i.obs = "visible") = i.pre.vis
    /\ Class(last.ev) = "toggle" /\ last.prevTag = "external" =>
          /\ visible = ~last.pre.vis
          /\ focused = visible

\* the window was hidden from outside, then the alternative hotkey showed it
C15_Witness ==
    /\ last.ev = Ev("shortcut", AltKeys)
    /\ last.prevTag = "external"
    /\ ~last.pre.vis
    /\ visible /\ focused

\* no callback is running and no event is waiting
AtRest == active = {} /\ queue = << >>

\* C16: closed and hidden are the same state: from every state at rest a close
\* request can return in exactly the states hide_window can, a close request
\* that was handled left such a state, and a toggle or show that follows a
\* close request makes the same window visible and focused again.
C16_CloseEqualsHide ==
    /\ AtRest =>
          Outcomes(CloseRequested, Snapshot) = Outcomes(Ev("invoke", "hide_window"), Snapshot)
    /\ last.ev = CloseRequested =>
          /\ Now \in Outcomes(Ev("invoke", "hide_window"), last.pre)
          /\ proc = "running"
    /\ Class(last.ev) \in {"toggle", "show"} /\ last.prevTag = "close" =>
          /\ visible /\ focused
          /\ winAlive
          /\ proc = "running"

\* a toggle straight after a close request brought the window back
C16_Witness ==
    /\ Class(last.ev) = "toggle"
    /\ last.prevTag = "close"
    /\ visible /\ focused /\ winAlive

ToggleEvents ==
    {Ev("tray", "LeftClick"), Ev("shortcut", PrimaryKeys), Ev("shortcut", AltKeys),
     Ev("invoke", "toggle_window")}

C18_OnlySettingsEmits ==
    /\ emitted <= selected
    /\ \A i \in active :
          NextOp(i) = "emit" => i.ev = Settings /\ visible /\ focused
    /\ last.ev \notin {NoEvent, Settings} => emitted = last.pre.emit

\* settings selected for the second time; the window is shown and focused and
\* the second notification is about to be emitted
C18_Witness ==
    /\ emitted = 1
    /\ selected = 2
    /\ \E i \in active : NextOp(i) = "emit" /\ ~i.pre.vis

====
